---- MODULE Spec2Model ----
(***************************************************************************)
(* A state-machine model of src/oust.py: the lobby loop, the intro, the    *)
(* active (elimination) loop with its win sequence and its mid-round       *)
(* reconciliation, poll_move with its failure counters, and the palette.   *)
(*                                                                         *)
(* The program is one thread.  Its position is pc (the loop it is in) and  *)
(* i (the index of the for loop it is in); one action is one pass through  *)
(* the body of a for loop, or the code between two for loops.  The         *)
(* transport (psmove.count_connected / psmove.PSMove(x)) is the            *)
(* environment: devices connect and disconnect, and the program sees a     *)
(* change at its next read of the enumeration (see EnvWindow).             *)
(*                                                                         *)
(* Devices are named by their serial, a number in Devices.  A PSMove       *)
(* handle is modelled by the serial of the device it was opened for, and   *)
(* leds / rumble hold the last values commanded for that device.           *)
(* Acceleration sums and the thresholds 0.7 and 0.2 are in tenths.         *)
(***************************************************************************)
EXTENDS Integers, Sequences, FiniteSets, TLC

\* ---- bounds of the model
MaxDevices == 3
MaxRounds == 1
\* consecutive failed polls a disconnected device may have in the game specification
MaxFail == 1
\* consecutive failed polls a connected device may have in the game specification
MaxTransient == 0
\* consecutive failed polls one device may have in the poll_move specification
PollCap == 1003
\* rounds and devices of the specification of two rounds in a row
RematchRounds == 2
RematchDevices == 2

Devices == 1..MaxDevices

\* ---- program constants
PollFailureLimit == 1000
TriggerThreshold == 100
BtnStart == 2048
BtnCircle == 32
BtnSelect == 256
\* 0.7 and 0.2, in tenths
DeadThreshold == 7
WarnThreshold == 2
RainbowSteps == 50

VARIABLES
  python,                 \* the interpreter, "2" or "3"; "?" until the program first depends on it
  connected,              \* the serials of the devices the transport has connected
  moves,                  \* the roster: handles of the last enumeration
  controllers_alive,      \* the joined / contestant dict, its keys in insertion order
  start, battery, battery_pressed,
  paired_controllers, usb_paired_controllers,
  controller_colours,     \* the palette: serial -> RGB
  move_last_values,       \* the baselines: serial -> acceleration sum
  last_total,             \* history: serial -> the sum read at its last successful poll of the round
  poll_failures,          \* serial -> consecutive failed polls
  pc, i, snap,            \* position: loop, for-loop index, list(controllers_alive.items())
  leds, rumble,           \* last commanded light and buzz of each device
  hci_dc,                 \* serials disconnect_move was called for by the last program step
  poll_ret,               \* return value of the last direct call of poll_move
  rounds, wins            \* number of "GAME START" and of "WIN" lines printed

vars == <<python, connected, moves, controllers_alive, start, battery, battery_pressed,
          paired_controllers, usb_paired_controllers, controller_colours,
          move_last_values, last_total, poll_failures, pc, i, snap, leds, rumble,
          hci_dc, poll_ret, rounds, wins>>

\* ---- helpers
Range(s) == {s[k] : k \in 1..Len(s)}
Remove(s, d) == SelectSeq(s, LAMBDA x : x # d)
IndexOf(s, d) == CHOOSE k \in 1..Len(s) : s[k] = d
Abs(x) == IF x < 0 THEN -x ELSE x
Sum3(t) == t[1] + t[2] + t[3]

\* a dict with no key, and d[k] = v
EmptyDict == [k \in {} |-> 0]
Put(d, k, v) == [x \in (DOMAIN d) \cup {k} |-> IF x = k THEN v ELSE d[x]]

White == <<255, 255, 255>>
Dark == <<0, 0, 0>>

\* ---- the environment's inputs
\* accelerometer frames (ax, ay, az) in tenths: sums 10, 12, 19
Samples == {<<0, 0, 10>>, <<1, 1, 10>>, <<3, 6, 10>>}
Triggers == {0, 255}
Buttons == {0, BtnStart, BtnCircle, BtnSelect}
\* the battery level of a device (get_battery): 5, 4, 3, 2 by serial
get_battery(d) == 5 - ((d - 1) % 4)
\* where the rainbow stands when the three seconds of the win sequence are over
LastFrames == {0, 25}
\* the connection kind of a device: serial 1 is on USB, the others on Bluetooth
connection_type(d) == IF d = 1 THEN "USB" ELSE "Bluetooth"

\* whether the transport lets a poll of device s succeed (ok) or fail: the
\* poll of a disconnected device fails, and failures are bounded
poll_outcome(s, ok) ==
  IF ok THEN s \in connected
  ELSE poll_failures[s] < (IF s \in connected THEN MaxTransient ELSE MaxFail)

\* a faulty poll_move that starts the count again after a forced disconnect
poll_move_forgetful(pf, serial, ok) ==
  IF ok
  THEN [pf |-> [pf EXCEPT ![serial] = 0], ret |-> TRUE, dc |-> FALSE]
  ELSE IF pf[serial] + 1 > PollFailureLimit
  THEN [pf |-> [pf EXCEPT ![serial] = 0], ret |-> FALSE, dc |-> TRUE]
  ELSE [pf |-> [pf EXCEPT ![serial] = pf[serial] + 1], ret |-> FALSE, dc |-> FALSE]

\* a faulty poll_move that disconnects one failure early (>= for >)
poll_move_at_limit(pf, serial, ok) ==
  IF ok
  THEN [pf |-> [pf EXCEPT ![serial] = 0], ret |-> TRUE, dc |-> FALSE]
  ELSE [pf |-> [pf EXCEPT ![serial] = pf[serial] + 1],
        ret |-> FALSE,
        dc |-> pf[serial] + 1 >= PollFailureLimit]

\* ---- poll_move: the new counters, the return value, and whether
\* disconnect_move was called
poll_move(pf, serial, ok) ==
  IF ok
  THEN [pf |-> [pf EXCEPT ![serial] = 0], ret |-> TRUE, dc |-> FALSE]
  ELSE [pf |-> [pf EXCEPT ![serial] = pf[serial] + 1],
        ret |-> FALSE,
        dc |-> pf[serial] + 1 > PollFailureLimit]

\* ---- hsv_to_rgb for h = hn/hd, s = sn/sd, v = 1, in exact arithmetic
\* (equal to the float computation for hd <= 4 with s = 1 and for hd = 50
\* with s = 9/10, the calls the program makes within the bounds)
hsv_to_rgb(hn, hd, sn, sd) ==
  LET i6 == (6 * hn) \div hd
      fn == (6 * hn) % hd
      p == (255 * (sd - sn)) \div sd
      q == (255 * (sd * hd - sn * fn)) \div (sd * hd)
      t == (255 * (sd * hd - sn * (hd - fn))) \div (sd * hd)
      v == 255
      k == i6 % 6
  IN IF sn = 0 THEN <<v, v, v>>
     ELSE IF k = 0 THEN <<v, t, p>>
     ELSE IF k = 1 THEN <<q, v, p>>
     ELSE IF k = 2 THEN <<p, v, t>>
     ELSE IF k = 3 THEN <<p, q, v>>
     ELSE IF k = 4 THEN <<t, p, v>>
     ELSE <<v, p, q>>

\* regenerate_colours: the palette over the roster mv
regenerate_colours(mv) ==
  [d \in Range(mv) |-> hsv_to_rgb(IndexOf(mv, d) - 1, Len(mv), 1, 1)]

\* the dimmed colour of the warning: int(v * 0.3) per channel
Scaled(c) == <<(c[1] * 3) \div 10, (c[2] * 3) \div 10, (c[3] * 3) \div 10>>

\* a faulty colour code that takes 80% for full
battery_colour_from_four(level) ==
  IF level >= 4 THEN <<0, 255, 0>>
  ELSE IF level = 3 THEN <<255, 255, 0>>
  ELSE <<255, 0, 0>>

\* the battery colour code
battery_colour(level) ==
  IF level = 5 THEN <<0, 255, 0>>
  ELSE IF level = 4 THEN <<128, 200, 0>>
  ELSE IF level = 3 THEN <<255, 255, 0>>
  ELSE <<255, 0, 0>>

Init ==
  /\ python = "?"
  /\ connected = {}
  /\ moves = <<>>
  /\ controllers_alive = <<>>
  /\ start = FALSE /\ battery = FALSE /\ battery_pressed = FALSE
  /\ paired_controllers = {} /\ usb_paired_controllers = {}
  /\ controller_colours = EmptyDict
  /\ move_last_values = EmptyDict
  /\ last_total = EmptyDict
  /\ poll_failures = [d \in Devices |-> 0]
  /\ pc = "lobby" /\ i = 1 /\ snap = <<>>
  /\ leds = [d \in Devices |-> Dark]
  /\ rumble = [d \in Devices |-> 0]
  /\ hci_dc = {}
  /\ poll_ret = FALSE
  /\ rounds = 0 /\ wins = 0

\* [psmove.PSMove(x) for x in range(psmove.count_connected())]: the handles
\* of the connected devices; the transport enumerates them by serial
enumerate(live) ==
  [k \in 1..Cardinality(live) |->
     CHOOSE d \in live : Cardinality({e \in live : e < d}) = k - 1]

\* ---- the transport: a device appears, or leaves.
\* The program reads the enumeration at lines 65, 136-137 and 239-240 only, so
\* a change takes effect at the next of these reads: it is modelled as
\* happening right before one (any number of changes may precede one read),
\* or right before the three seconds of the win sequence, which ends its
\* tick without a read.
EnvWindowIn(maxr) ==
  \/ pc = "lobby" /\ rounds < maxr
  \/ pc = "lobby_for" /\ i > Len(moves)
  \/ pc = "active_for" /\ i > Len(snap)
  \/ pc = "active_for" /\ i <= Len(snap) /\ Len(controllers_alive) = 1

EnvWindow == EnvWindowIn(MaxRounds)

\* one of the devices D appears, in a run of at most maxr rounds
ConnectIn(D, maxr) ==
  /\ EnvWindowIn(maxr)
  /\ \E d \in D \ connected : connected' = connected \cup {d}
  /\ UNCHANGED <<python, moves, controllers_alive, start, battery, battery_pressed,
                 paired_controllers, usb_paired_controllers, controller_colours,
                 move_last_values, last_total, poll_failures, pc, i, snap, leds, rumble, hci_dc,
                 poll_ret, rounds, wins>>

Connect == ConnectIn(Devices, MaxRounds)

DisconnectIn(maxr) ==
  /\ EnvWindowIn(maxr)
  /\ \E d \in connected : connected' = connected \ {d}
  /\ UNCHANGED <<python, moves, controllers_alive, start, battery, battery_pressed,
                 paired_controllers, usb_paired_controllers, controller_colours,
                 move_last_values, last_total, poll_failures, pc, i, snap, leds, rumble, hci_dc,
                 poll_ret, rounds, wins>>

Disconnect == DisconnectIn(MaxRounds)

\* ---- the lobby loop (lines 59-144)
\* lines 60-65: the outer loop enters the lobby and enumerates the transport,
\* in a run of at most maxr rounds
LobbyEnumerateIn(maxr) ==
  /\ pc = "lobby"
  /\ rounds < maxr
  /\ start' = FALSE /\ battery' = FALSE /\ battery_pressed' = FALSE
  /\ moves' = enumerate(connected)
  /\ i' = 1
  /\ pc' = "lobby_for"
  /\ hci_dc' = {}
  /\ UNCHANGED <<python, connected, controllers_alive,
                 paired_controllers, usb_paired_controllers, controller_colours,
                 move_last_values, last_total, poll_failures, snap, leds, rumble,
                 poll_ret, rounds, wins>>

LobbyEnumerate == LobbyEnumerateIn(MaxRounds)

\* what one pass of the for loop reads from the device
LobbyInputs ==
  {[this |-> FALSE, poll |-> FALSE, trigger |-> 0, buttons |-> 0],
   [this |-> TRUE, poll |-> FALSE, trigger |-> 0, buttons |-> 0]}
  \cup [this : {TRUE}, poll : {TRUE}, trigger : Triggers, buttons : Buttons]

\* lines 66-130: the body of the for loop for the handle moves[i]
LobbyDevice ==
  /\ pc = "lobby_for"
  /\ i <= Len(moves)
  /\ \E in \in LobbyInputs :
       LET s == moves[i] IN
       IF ~in.this
       THEN \* lines 67-70: the handle is null, the roster is dropped
            /\ moves' = <<>> /\ i' = 1 /\ hci_dc' = {}
            /\ UNCHANGED <<controllers_alive, start, battery, battery_pressed,
                           paired_controllers, usb_paired_controllers,
                           poll_failures, leds, rumble>>
       ELSE IF connection_type(s) = "USB" /\ s \notin usb_paired_controllers
       THEN \* lines 73-81
            /\ usb_paired_controllers' = usb_paired_controllers \cup {s}
            /\ leds' = [leds EXCEPT ![s] = White]
            /\ i' = i + 1 /\ hci_dc' = {}
            /\ UNCHANGED <<moves, controllers_alive, start, battery, battery_pressed,
                           paired_controllers, poll_failures, rumble>>
       ELSE IF connection_type(s) = "Bluetooth" /\ s \notin paired_controllers
       THEN \* lines 84-91
            /\ paired_controllers' = paired_controllers \cup {s}
            /\ leds' = [leds EXCEPT ![s] = White]
            /\ i' = i + 1 /\ hci_dc' = {}
            /\ UNCHANGED <<moves, controllers_alive, start, battery, battery_pressed,
                           usb_paired_controllers, poll_failures, rumble>>
       ELSE \* lines 93-130
            /\ poll_outcome(s, in.poll)
            /\ LET r == poll_move(poll_failures, s, in.poll)
                   joined == IF r.ret /\ s \notin Range(controllers_alive)
                                /\ in.trigger > TriggerThreshold
                             THEN Append(controllers_alive, s)
                             ELSE controllers_alive
                   pressed == r.ret /\ in.buttons = BtnCircle
                   bat == battery \/ pressed
                   status == IF s \in Range(joined) THEN White ELSE Dark
                   colour == IF bat THEN battery_colour(get_battery(s)) ELSE status
               IN /\ poll_failures' = r.pf
                  /\ controllers_alive' = joined
                  /\ leds' = IF r.ret THEN [leds EXCEPT ![s] = colour] ELSE leds
                  /\ rumble' = IF r.ret THEN [rumble EXCEPT ![s] = 0] ELSE rumble
                  /\ start' = (start \/ (r.ret /\ in.buttons = BtnStart))
                  /\ battery_pressed' = (battery_pressed \/ pressed)
                  /\ battery' = bat
                  /\ hci_dc' = IF r.dc \/ (r.ret /\ in.buttons = BtnSelect)
                               THEN {s} ELSE {}
                  /\ i' = i + 1
            /\ UNCHANGED <<moves, paired_controllers, usb_paired_controllers>>
  /\ UNCHANGED <<python, connected, controller_colours, move_last_values, last_total, pc, snap,
                 poll_ret, rounds, wins>>

\* lines 140-144: the two exit conditions of the lobby
lobby_exit(alive, mv, st) ==
  \/ (Len(alive) = Len(mv) /\ Len(alive) > 0)
  \/ (Len(alive) >= 2 /\ st = TRUE)

\* a faulty rebuild that only notices new devices
rebuild_on_growth(mv, live) == IF Cardinality(live) > Len(mv) THEN enumerate(live) ELSE mv

\* lines 136-137 and 239-240: the roster is rebuilt when the count differs
rebuild(mv, live) == IF Cardinality(live) # Len(mv) THEN enumerate(live) ELSE mv

\* lines 132-149: the end of a lobby tick: "GAME START" when the lobby exits,
\* else the next tick begins (lines 64-65) with a fresh enumeration
LobbyEnd ==
  /\ pc = "lobby_for"
  /\ i > Len(moves)
  /\ LET mv == rebuild(moves, connected)
         bat == IF battery /\ ~battery_pressed THEN FALSE ELSE battery
     IN /\ i' = 1
        /\ hci_dc' = {}
        /\ IF lobby_exit(controllers_alive, mv, start)
           THEN \* lines 146-149.  start, battery and battery_pressed are not
                \* read again before lines 60-62 overwrite them: they take
                \* the values of lines 60-62 here
                /\ rounds' = rounds + 1
                /\ moves' = mv
                /\ controller_colours' = regenerate_colours(mv)
                /\ pc' = "intro"
                /\ start' = FALSE /\ battery' = FALSE /\ battery_pressed' = FALSE
           ELSE \* lines 64-65
                /\ battery' = bat
                /\ battery_pressed' = FALSE
                /\ moves' = enumerate(connected)
                /\ UNCHANGED <<pc, rounds, controller_colours, start>>
  /\ UNCHANGED <<python, connected, controllers_alive,
                 paired_controllers, usb_paired_controllers, move_last_values, last_total,
                 poll_failures, snap, leds, rumble, poll_ret, wins>>

\* a faulty intro that shows yellow before red
IntroYellowFirst ==
  << [leds |-> White, rumble |-> 0],
     [leds |-> White, rumble |-> 100],
     [leds |-> <<50, 75, 0>>, rumble |-> 0],
     [leds |-> <<50, 0, 0>>, rumble |-> 0],
     [leds |-> <<0, 50, 0>>, rumble |-> 0] >>

\* ---- the intro (lines 151-160): leds and rumble of the five phases
IntroPhases ==
  << [leds |-> White, rumble |-> 0],
     [leds |-> White, rumble |-> 100],
     [leds |-> <<50, 0, 0>>, rumble |-> 0],
     [leds |-> <<50, 75, 0>>, rumble |-> 0],
     [leds |-> <<0, 50, 0>>, rumble |-> 0] >>

\* sleep_controllers: every handle of mvs gets the phase's rumble and leds
sleep_controllers(phase, mvs) ==
  /\ leds' = [d \in Devices |-> IF d \in Range(mvs) THEN phase.leds ELSE leds[d]]
  /\ rumble' = [d \in Devices |-> IF d \in Range(mvs) THEN phase.rumble ELSE rumble[d]]

IntroPhase ==
  /\ pc = "intro"
  /\ i <= Len(IntroPhases)
  /\ sleep_controllers(IntroPhases[i], controllers_alive)
  /\ i' = i + 1
  /\ hci_dc' = {}
  /\ UNCHANGED <<python, connected, moves, controllers_alive, start, battery,
                 battery_pressed, paired_controllers, usb_paired_controllers,
                 controller_colours, move_last_values, last_total, poll_failures, pc, snap,
                 poll_ret, rounds, wins>>

\* a faulty round start that keeps the baselines it finds
kept_baselines(mlv) == mlv

\* line 166: move_last_values = {}
fresh_baselines(mlv) == EmptyDict

\* lines 163-168: every contestant gets its palette colour; a contestant
\* without a palette entry raises KeyError
StartRound ==
  /\ pc = "intro"
  /\ i > Len(IntroPhases)
  /\ LET missing == {k \in 1..Len(controllers_alive) :
                       controllers_alive[k] \notin DOMAIN controller_colours}
         upto == IF missing = {} THEN Len(controllers_alive)
                 ELSE (CHOOSE k \in missing : \A m \in missing : k <= m) - 1
         done == {controllers_alive[k] : k \in 1..upto}
     IN /\ leds' = [d \in Devices |-> IF d \in done THEN controller_colours[d]
                                      ELSE leds[d]]
        /\ IF missing = {}
           THEN /\ move_last_values' = fresh_baselines(move_last_values)
                /\ last_total' = EmptyDict
                /\ pc' = "active_for"
                /\ snap' = controllers_alive
                /\ i' = 1
           ELSE /\ pc' = "crashed"
                /\ UNCHANGED <<move_last_values, last_total, snap, i>>
  /\ hci_dc' = {}
  /\ UNCHANGED <<python, connected, moves, controllers_alive, start, battery,
                 battery_pressed, paired_controllers, usb_paired_controllers,
                 controller_colours, poll_failures, rumble, poll_ret, rounds, wins>>

\* a faulty classification whose elimination threshold is inclusive
classify_inclusive(baseline, total) ==
  LET change == Abs(baseline - total) IN
  IF change >= DeadThreshold THEN "Eliminated"
  ELSE IF change > WarnThreshold THEN "Warning"
  ELSE "Alive"

\* ---- the active loop (lines 169-249)
\* lines 215-229: the verdict on a sample sum against the baseline
classify(baseline, total) ==
  LET change == Abs(baseline - total) IN
  IF change > DeadThreshold THEN "Eliminated"
  ELSE IF change > WarnThreshold THEN "Warning"
  ELSE "Alive"

\* a faulty elimination that forgets the deletion
eliminate_nobody(alive, s) == alive

\* a faulty elimination that deletes the first contestant, whoever moved
eliminate_first(alive, s) == Tail(alive)

\* line 221: del controllers_alive[serial]
eliminate(alive, s) == Remove(alive, s)

\* a faulty win check that also fires while two contestants remain
up_to_two_left(alive) == Len(alive) >= 1 /\ Len(alive) <= 2

\* line 173: if len(controllers_alive) == 1
one_left(alive) == Len(alive) = 1

\* lines 173-207: the win sequence for the last contestant, then back to
\* the top of the outer loop (lines 60-62)
WinSequence ==
  \E k \in LastFrames :
    LET w == controllers_alive[1] IN
    /\ leds' = [d \in Devices |->
                  IF d = w THEN hsv_to_rgb(k, RainbowSteps, 9, 10)
                  ELSE IF d \in Range(moves) THEN Dark ELSE leds[d]]
    /\ rumble' = [d \in Devices |->
                    IF d = w \/ d \in Range(moves) THEN 100 ELSE rumble[d]]
    /\ controllers_alive' = <<>>
    /\ wins' = wins + 1
    /\ pc' = "lobby" /\ i' = 1 /\ snap' = <<>>
    /\ hci_dc' = {}
    /\ UNCHANGED <<move_last_values, last_total, poll_failures, start, battery, battery_pressed>>

\* a faulty baseline update that keeps the old baseline of a warned contestant
record_unless_warned(mlv, s, total, verdict) ==
  IF verdict = "Warning" THEN mlv ELSE Put(mlv, s, total)

\* line 234: move_last_values[serial] = total, whatever the verdict was
record(mlv, s, total, verdict) == Put(mlv, s, total)

\* lines 210-234: one contestant is polled and classified
UpdateMove(s) ==
  \E ok \in BOOLEAN, sample \in Samples :
    /\ poll_outcome(s, ok)
    /\ LET r == poll_move(poll_failures, s, ok)
           total == Sum3(sample)
           known == s \in DOMAIN move_last_values
           verdict == IF r.ret /\ known
                      THEN classify(move_last_values[s], total)
                      ELSE "NoSample"
       IN /\ poll_failures' = r.pf
          /\ hci_dc' = IF r.dc THEN {s} ELSE {}
          /\ controllers_alive' = IF verdict = "Eliminated"
                                  THEN eliminate(controllers_alive, s)
                                  ELSE controllers_alive
          /\ leds' = IF verdict = "Eliminated" THEN [leds EXCEPT ![s] = Dark]
                     ELSE IF verdict = "Warning"
                     THEN [leds EXCEPT ![s] = Scaled(controller_colours[s])]
                     ELSE IF verdict = "Alive"
                     THEN [leds EXCEPT ![s] = controller_colours[s]]
                     ELSE leds
          /\ rumble' = IF verdict = "Eliminated" THEN [rumble EXCEPT ![s] = 100]
                       ELSE IF verdict = "Alive" THEN [rumble EXCEPT ![s] = 0]
                       ELSE rumble
          /\ move_last_values' = IF r.ret THEN record(move_last_values, s, total, verdict)
                                 ELSE move_last_values
          /\ last_total' = IF r.ret THEN Put(last_total, s, total) ELSE last_total
    /\ i' = i + 1
    /\ UNCHANGED <<pc, snap, start, battery, battery_pressed, wins>>

\* lines 170-234: the body of the for loop for the snapshot entry snap[i]
ActiveDevice ==
  /\ pc = "active_for"
  /\ i <= Len(snap)
  /\ IF one_left(controllers_alive) THEN WinSequence ELSE UpdateMove(snap[i])
  /\ UNCHANGED <<python, connected, moves, paired_controllers, usb_paired_controllers,
                 controller_colours, poll_ret, rounds>>

\* a faulty reconciliation that takes every available device for a contestant
reconcile_to_available(alive, available, p3) ==
  [alive |-> SelectSeq(alive, LAMBDA x : x \in available)
               \o SelectSeq(enumerate(available), LAMBDA x : x \notin Range(alive)),
   raised |-> FALSE]

\* a faulty reconciliation that stops after the first deletion
reconcile_first_only(alive, available, p3) ==
  LET stale == {k \in 1..Len(alive) : alive[k] \notin available}
      first == CHOOSE k \in stale : \A m \in stale : k <= m
  IN IF stale = {} THEN [alive |-> alive, raised |-> FALSE]
     ELSE [alive |-> Remove(alive, alive[first]), raised |-> FALSE]

\* lines 243-245: contestants whose serial is not available are deleted while
\* the dict is iterated.  Python 2 iterates a copy; Python 3 iterates a view
\* and raises RuntimeError at the step after the first deletion.  The file
\* runs under both, so the interpreter is either, the same for the whole run.
reconcile(alive, available, p3) ==
  LET stale == {k \in 1..Len(alive) : alive[k] \notin available}
      first == CHOOSE k \in stale : \A m \in stale : k <= m
  IN IF stale = {} THEN [alive |-> alive, raised |-> FALSE]
     ELSE IF p3 THEN [alive |-> Remove(alive, alive[first]), raised |-> TRUE]
     ELSE [alive |-> SelectSeq(alive, LAMBDA x : x \in available), raised |-> FALSE]

\* a faulty rebuild that starts every device afresh
discarded_history(mlv) == EmptyDict

\* lines 239-245 assign moves and controllers_alive only: the baselines, and
\* the failure counters, are keyed by serial and are not touched
rebuilt_history(mlv) == mlv

\* lines 236-249: the end of an active tick
ActiveEnd ==
  /\ pc = "active_for"
  /\ i > Len(snap)
  /\ LET mismatch == Cardinality(connected) # Len(moves)
         mv == rebuild(moves, connected)
         deletes == mismatch /\ \E s \in Range(controllers_alive) : s \notin Range(mv)
     IN \E py \in {"2", "3"} :
        /\ python \in {"?", py}
        /\ python' = IF deletes THEN py ELSE python
        /\ LET rec == IF mismatch
                      THEN reconcile(controllers_alive, Range(mv), py = "3")
                      ELSE [alive |-> controllers_alive, raised |-> FALSE]
           IN /\ moves' = mv
              /\ controllers_alive' = rec.alive
              /\ move_last_values' = IF mismatch THEN rebuilt_history(move_last_values)
                                     ELSE move_last_values
              /\ IF rec.raised
                 THEN /\ pc' = "crashed"
                      /\ UNCHANGED <<i, snap>>
                 ELSE IF Len(mv) = 0
                 THEN \* "Somehow, everyone disconnected": back to line 60
                      /\ pc' = "lobby" /\ i' = 1 /\ snap' = <<>>
                 ELSE /\ pc' = "active_for" /\ i' = 1 /\ snap' = rec.alive
  /\ hci_dc' = {}
  /\ UNCHANGED <<connected, paired_controllers, usb_paired_controllers,
                 controller_colours, last_total, poll_failures, leds, rumble,
                 poll_ret, rounds, wins, start, battery, battery_pressed>>

\* ---- the specification of the game
Transport == Connect \/ Disconnect
Program ==
  \/ LobbyEnumerate
  \/ LobbyDevice
  \/ LobbyEnd
  \/ IntroPhase
  \/ StartRound
  \/ ActiveDevice
  \/ ActiveEnd

Next ==
  \/ Connect
  \/ Disconnect
  \/ LobbyEnumerate
  \/ LobbyDevice
  \/ LobbyEnd
  \/ IntroPhase
  \/ StartRound
  \/ ActiveDevice
  \/ ActiveEnd

Spec == Init /\ [][Next]_vars

\* the control loop never pauses: whatever step it can take, it takes
FairSpec == Spec /\ WF_vars(Program)

\* ---- two rounds in a row, with the devices 1..RematchDevices
RematchConnect == ConnectIn(1..RematchDevices, RematchRounds)
RematchDisconnect == DisconnectIn(RematchRounds)
RematchEnumerate == LobbyEnumerateIn(RematchRounds)

RematchNext ==
  \/ RematchConnect
  \/ RematchDisconnect
  \/ RematchEnumerate
  \/ LobbyDevice
  \/ LobbyEnd
  \/ IntroPhase
  \/ StartRound
  \/ ActiveDevice
  \/ ActiveEnd

RematchSpec == Init /\ [][RematchNext]_vars

\* ---- poll_move called directly, for any device and any poll outcome; at
\* most one device at a time is in a streak of more than MaxFail failures
PollStep ==
  \E d \in Devices, ok \in BOOLEAN :
    /\ ~ok => /\ poll_failures[d] < PollCap
              /\ \A e \in Devices \ {d} : poll_failures[e] <= MaxFail
    /\ LET r == poll_move(poll_failures, d, ok) IN
         /\ poll_failures' = r.pf
         /\ poll_ret' = r.ret
         /\ hci_dc' = IF r.dc THEN {d} ELSE {}
    /\ UNCHANGED <<python, connected, moves, controllers_alive, start, battery,
                   battery_pressed, paired_controllers, usb_paired_controllers,
                   controller_colours, move_last_values, last_total, pc, i, snap, leds, rumble,
                   rounds, wins>>

PollNext == PollStep

PollSpec == Init /\ [][PollNext]_vars

\* ---- the steps the properties below speak of.  A step of the transport
\* changes connected and a step of the program never does.
LobbyTickEnd == pc = "lobby_for" /\ i > Len(moves) /\ connected' = connected
ActiveTickEnd == pc = "active_for" /\ i > Len(snap) /\ connected' = connected
WinTick ==
  /\ pc = "active_for" /\ i <= Len(snap) /\ Len(controllers_alive) = 1
  /\ connected' = connected
ClassifyStep == pc = "active_for" /\ i <= Len(snap) /\ Len(controllers_alive) # 1
\* the step polled device s successfully (a failed poll leaves a counter >= 1)
\* and s had a baseline
Sampled(s) == poll_failures'[s] = 0 /\ s \in DOMAIN move_last_values
Change(s) == Abs(move_last_values[s] - move_last_values'[s])

EveryoneIn == connected # {} /\ connected \subseteq Range(controllers_alive)
EarlyStart == Len(controllers_alive) >= 2 /\ start

\* C1: at the end of every lobby tick the lobby exits to the round start if
\* and only if every connected device has joined and there is at least one,
\* or at least two devices have joined and the early-start flag is set.
C1_LobbyExit ==
  [][LobbyTickEnd => ((pc' = "intro") <=> (EveryoneIn \/ EarlyStart))]_vars

\* C2: whatever the devices do, the control loop never reaches an
\* unhandled-exception state.
C2_NoException == pc # "crashed"

C4_RoundEnds == (pc = "active_for" /\ Len(controllers_alive) <= 1) ~> (pc = "lobby")

\* C5: at the end of every active tick that does not end the round, every
\* contestant is in the live enumeration of the transport.
C5_ContestantsLive ==
  [][(ActiveTickEnd /\ pc' = "active_for")
       => Range(controllers_alive') \subseteq connected]_vars

\* C6: at every round start with N >= 2 contestants, the palette gives the
\* contestants N pairwise distinct colours, of hues k/N for k = 0..N-1.
C6_Palette ==
  (pc = "intro" /\ Len(controllers_alive) >= 2) =>
    LET N == Len(controllers_alive) IN
    /\ Range(controllers_alive) \subseteq DOMAIN controller_colours
    /\ {controller_colours[s] : s \in Range(controllers_alive)}
         = {hsv_to_rgb(k, N, 1, 1) : k \in 0..(N - 1)}
    /\ Cardinality({hsv_to_rgb(k, N, 1, 1) : k \in 0..(N - 1)}) = N

\* C7: a contestant with a baseline that is polled successfully is judged by
\* change = |baseline - total| alone (in tenths): above 7 it is eliminated
\* (removed, dark, buzz 100), above 2 and up to 7 it is warned (kept, palette
\* colour at 30%, buzz untouched), up to 2 it is alive (kept, palette colour,
\* buzz 0).
C7_Classification ==
  [][ClassifyStep =>
       LET s == snap[i] IN
       Sampled(s) =>
         /\ Change(s) > 7 =>
              /\ s \notin Range(controllers_alive')
              /\ leds'[s] = Dark /\ rumble'[s] = 100
         /\ (Change(s) > 2 /\ Change(s) <= 7) =>
              /\ s \in Range(controllers_alive')
              /\ leds'[s] = Scaled(controller_colours[s]) /\ rumble'[s] = rumble[s]
         /\ Change(s) <= 2 =>
              /\ s \in Range(controllers_alive')
              /\ leds'[s] = controller_colours[s] /\ rumble'[s] = 0]_vars

C7_Judged ==
  /\ pc = "active_for" /\ Len(snap) = 3 /\ i = 3
  /\ snap[1] \notin Range(controllers_alive)
  /\ leds[snap[1]] = Dark /\ rumble[snap[1]] = 100
  /\ snap[2] \in Range(controllers_alive)
  /\ leds[snap[2]] = Scaled(controller_colours[snap[2]])

\* C8: a successful poll returns true and sets the device's counter to zero;
\* a failed poll returns false and adds one to it; the forced disconnect is
\* issued when the counter reaches 1001 and not while it is at most 1000.
C8_PollMove ==
  [][\E d \in Devices :
       \/ /\ poll_ret' = TRUE
          /\ poll_failures' = [poll_failures EXCEPT ![d] = 0]
          /\ hci_dc' = {}
       \/ /\ poll_ret' = FALSE
          /\ poll_failures' = [poll_failures EXCEPT ![d] = poll_failures[d] + 1]
          /\ poll_failures'[d] <= 1000 => hci_dc' = {}
          /\ poll_failures'[d] = 1001 => hci_dc' = {d}]_vars

C8_Disconnected ==
  \E d \in Devices : poll_failures[d] = 1001 /\ hci_dc = {d} /\ poll_ret = FALSE

\* C9 as stated: at the end of every tick of the lobby loop and of the active
\* loop, the tick of the win sequence included, the roster has as many
\* entries as the transport has connected devices.
C9_RosterEveryTick ==
  [][(LobbyTickEnd \/ ActiveTickEnd \/ WinTick)
       => Len(moves') = Cardinality(connected)]_vars

\* C9: at the end of every lobby tick, and of every active tick that reaches
\* the roster check of lines 236-240, the roster has as many entries as the
\* transport has connected devices.
C9_RosterSize ==
  [][(LobbyTickEnd \/ ActiveTickEnd) => Len(moves') = Cardinality(connected)]_vars

\* a device arrived during the round and the roster took it in
C9_Rebuilt ==
  /\ pc = "active_for" /\ i = 1 /\ snap # <<>>
  /\ \E d \in Range(moves) : d \notin DOMAIN controller_colours
  /\ Len(moves) = Cardinality(connected)

\* C10 as stated: in a tick with at least three contestants in which one was
\* eliminated, every contestant visited later in the tick is classified from
\* its own sample and baseline: it loses its membership only by its own
\* change above 7, its buzz is set only by its own verdict, and nobody wins.
C10_OthersClassified ==
  [][(/\ pc = "active_for" /\ i <= Len(snap) /\ Len(snap) >= 3
      /\ connected' = connected
      /\ \E k \in 1..(i - 1) : snap[k] \notin Range(controllers_alive))
       => LET b == snap[i] IN
          /\ wins' = wins
          /\ b \notin Range(controllers_alive') => (Sampled(b) /\ Change(b) > 7)
          /\ rumble'[b] # rumble[b] => Sampled(b)
          /\ controller_colours' = controller_colours]_vars

\* C10: in a tick with at least three contestants, a contestant visited while
\* at least two remain leaves the set exactly when its own change is above 7,
\* and is then dark with buzz 100; the step changes the membership, the
\* leds, the buzz and the baseline of no other device, and no palette colour.
C10_EliminationFrame ==
  [][(ClassifyStep /\ Len(snap) >= 3) =>
       LET a == snap[i] IN
       /\ a \notin Range(controllers_alive') <=> (Sampled(a) /\ Change(a) > 7)
       /\ a \notin Range(controllers_alive') => (leds'[a] = Dark /\ rumble'[a] = 100)
       /\ \A d \in Devices \ {a} :
            /\ d \in Range(controllers_alive') <=> d \in Range(controllers_alive)
            /\ leds'[d] = leds[d] /\ rumble'[d] = rumble[d]
            /\ d \in DOMAIN move_last_values =>
                 /\ d \in DOMAIN move_last_values'
                 /\ move_last_values'[d] = move_last_values[d]
       /\ controller_colours' = controller_colours]_vars

C10_OneOut ==
  /\ pc = "active_for" /\ Len(snap) = 3 /\ i = 4
  /\ snap[1] \notin Range(controllers_alive)
  /\ leds[snap[1]] = Dark /\ rumble[snap[1]] = 100
  /\ snap[2] \in Range(controllers_alive) /\ snap[3] \in Range(controllers_alive)

\* C11: whenever the program is back in the lobby after a round, by the win
\* sequence or because the transport reported no device, the contestant set
\* is empty: nobody counts as joined before pulling the trigger again.
C11_EmptyOnReturn == (pc = "lobby" /\ rounds >= 1) => controllers_alive = <<>>

\* the round ended without a winner: every device left, and the contestants
\* were deleted by the reconciliation
C11_MassDisconnect ==
  /\ pc = "lobby" /\ rounds = 1 /\ wins = 0
  /\ python = "2" /\ connected = {} /\ moves = <<>>

\* C12: at the lobby exit the contestant set is the joined set of the lobby
\* that ends, and each of its members is a device of the roster and has an
\* entry in the palette generated at that exit.
C12_ContestantsAtStart ==
  [][(LobbyTickEnd /\ pc' = "intro") =>
       /\ controllers_alive' = controllers_alive
       /\ Range(controllers_alive') \subseteq Range(moves')
       /\ Range(controllers_alive') \subseteq DOMAIN controller_colours']_vars

\* C13: in the active loop the baseline of every device is the sum read at
\* its last successful poll of the round, whatever verdict that poll got; and
\* a contestant polled successfully once more is judged by the distance
\* between that sum and the new one: above 7 it is eliminated and dark, above
\* 2 and up to 7 it is kept and dimmed, up to 2 it is kept at full colour.
C13_LastSample ==
  /\ [](pc = "active_for" => move_last_values = last_total)
  /\ [][ClassifyStep =>
          LET s == snap[i]
              d == Abs(last_total[s] - last_total'[s])
          IN (poll_failures'[s] = 0 /\ s \in DOMAIN last_total) =>
               /\ s \notin Range(controllers_alive') <=> d > 7
               /\ leds'[s] = (IF d > 7 THEN Dark
                              ELSE IF d > 2 THEN Scaled(controller_colours[s])
                              ELSE controller_colours[s])]_vars

\* a contestant was eliminated and its baseline is the sum that eliminated it
C13_Overwritten ==
  /\ pc = "active_for"
  /\ \E s \in Range(snap) :
       /\ s \notin Range(controllers_alive) /\ leds[s] = Dark
       /\ s \in DOMAIN last_total /\ s \in DOMAIN move_last_values
       /\ move_last_values[s] = last_total[s]

\* C14: every round enters the active loop without baselines, so none of an
\* earlier round is used; and the first successful poll of a contestant in a
\* round gives no verdict: the contestant set, the leds and the buzz of every
\* device stay as they are, and the sum is recorded as its baseline.
C14_FirstSample ==
  /\ [][(pc = "intro" /\ pc' = "active_for") => move_last_values' = EmptyDict]_vars
  /\ [][ClassifyStep =>
          LET s == snap[i] IN
          (poll_failures'[s] = 0 /\ s \notin DOMAIN last_total) =>
            /\ controllers_alive' = controllers_alive
            /\ leds' = leds /\ rumble' = rumble
            /\ s \in DOMAIN move_last_values'
            /\ move_last_values'[s] = last_total'[s]]_vars

\* in the second round the first contestant has been sampled once: it shows
\* its palette colour and has a baseline
C14_SecondRound ==
  /\ rounds = 2 /\ pc = "active_for" /\ i = 2 /\ Len(snap) = 2
  /\ DOMAIN move_last_values = {snap[1]}
  /\ controllers_alive = snap
  /\ leds[snap[1]] = controller_colours[snap[1]]

\* the end of a tick that finds the live count different from the roster's
\* and rebuilds the roster (lines 136-137, 239-240)
RebuildStep ==
  /\ LobbyTickEnd \/ ActiveTickEnd
  /\ Cardinality(connected) # Len(moves)

\* C15 as stated: after a roster rebuild, every device of the old roster
\* that is still connected has its failure counter at zero and no baseline.
C15_HistoryDiscarded ==
  [][RebuildStep =>
       \A d \in Range(moves) \cap connected :
         poll_failures'[d] = 0 /\ d \notin DOMAIN move_last_values']_vars

\* C15: a roster rebuild changes no failure counter and no baseline.
C15_HistoryKept ==
  [][RebuildStep =>
       /\ poll_failures' = poll_failures
       /\ move_last_values' = move_last_values]_vars

\* the roster was rebuilt during the round (it holds a device the palette
\* does not have) and a connected contestant still has its baseline
C15_BaselineSurvived ==
  /\ pc = "active_for" /\ i = 1
  /\ \E d \in Range(moves) : d \notin DOMAIN controller_colours
  /\ \E s \in Range(controllers_alive) \cap connected : s \in DOMAIN move_last_values

\* C16: from the lobby exit on, the contestants are driven through five
\* phases, in this order: white, white with buzz 100, (50,0,0), (50,75,0),
\* (0,50,0), all but the second with buzz 0; meanwhile nobody leaves the
\* contestant set and no baseline is recorded; the active loop is entered
\* only from the end of the fifth phase, with each contestant at its palette
\* colour.
C16_Intro ==
  /\ [][(LobbyTickEnd /\ pc' = "intro") => i' = 1]_vars
  /\ [][pc = "intro" =>
          /\ controllers_alive' = controllers_alive
          /\ move_last_values' \in {move_last_values, EmptyDict}
          /\ i <= 5 =>
               /\ pc' = "intro" /\ i' = i + 1
               /\ \A s \in Range(controllers_alive) :
                    /\ leds'[s] = (IF i <= 2 THEN <<255, 255, 255>>
                                   ELSE IF i = 3 THEN <<50, 0, 0>>
                                   ELSE IF i = 4 THEN <<50, 75, 0>>
                                   ELSE <<0, 50, 0>>)
                    /\ rumble'[s] = (IF i = 2 THEN 100 ELSE 0)]_vars
  /\ [][(pc # "active_for" /\ pc' = "active_for") =>
          /\ pc = "intro" /\ i = 6
          /\ \A s \in Range(controllers_alive') :
               leds'[s] = controller_colours[s] /\ rumble'[s] = 0]_vars

\* the round has just started: three contestants show their palette colours
\* and nobody has been sampled
C16_Started ==
  /\ pc = "active_for" /\ i = 1 /\ Len(controllers_alive) = 3
  /\ snap = controllers_alive /\ move_last_values = EmptyDict
  /\ \A s \in Range(controllers_alive) :
       leds[s] = controller_colours[s] /\ rumble[s] = 0

LobbyPolled ==
  /\ pc = "lobby_for" /\ i <= Len(moves) /\ moves' = moves
  /\ paired_controllers' = paired_controllers
  /\ usb_paired_controllers' = usb_paired_controllers
  /\ poll_failures'[moves[i]] = 0

\* C18: a device polled successfully in the lobby shows the colour of its
\* battery level (5 green, 4 green-yellow, 3 yellow, less red) when the
\* battery mode is active after its buttons were read, and its join status
\* (white or dark) otherwise; the mode stays active through a tick and is
\* active once the button was seen; at the end of a tick in which the button
\* was not seen the mode is inactive, and otherwise it stays as it is.
C18_BatteryMode ==
  /\ [][LobbyPolled =>
          LET s == moves[i]
              level == get_battery(s)
          IN /\ battery => battery'
             /\ (battery_pressed' /\ ~battery_pressed) => battery'
             /\ leds'[s] = (IF battery'
                            THEN (IF level = 5 THEN <<0, 255, 0>>
                                  ELSE IF level = 4 THEN <<128, 200, 0>>
                                  ELSE IF level = 3 THEN <<255, 255, 0>>
                                  ELSE <<255, 0, 0>>)
                            ELSE IF s \in Range(controllers_alive')
                            THEN <<255, 255, 255>> ELSE <<0, 0, 0>>)]_vars
  /\ [][LobbyTickEnd =>
          /\ ~battery_pressed => ~battery'
          /\ (pc' = "lobby_for" /\ battery /\ battery_pressed) => battery'
          /\ pc' = "lobby_for" => ~battery_pressed']_vars

\* the mode is still active from the tick before: the first device of the
\* roster did not press the button and shows its battery colour
C18_StillShown ==
  /\ pc = "lobby_for" /\ i = 2 /\ Len(moves) >= 2
  /\ battery /\ ~battery_pressed
  /\ poll_failures[moves[1]] = 0 /\ moves[1] \in connected
  /\ leds[moves[1]] = battery_colour(get_battery(moves[1]))

\* C19: from the lobby exit to the end of the round the contestant set only
\* shrinks: every step leaves it a subset of what it was, so a device that
\* was eliminated or removed is not a contestant again in that round.
C19_OnlyShrinks ==
  [][(pc = "intro" \/ pc = "active_for") =>
       /\ Range(controllers_alive') \subseteq Range(controllers_alive)
       /\ Len(controllers_alive') <= Len(controllers_alive)]_vars

\* a contestant that was sampled in this round and was not eliminated is out
\* of the set, removed by the reconciliation, and is connected again while
\* the round goes on
C19_BackButOut ==
  /\ pc = "active_for" /\ controllers_alive # <<>>
  /\ \E d \in DOMAIN last_total :
       /\ d \notin Range(controllers_alive)
       /\ d \in connected /\ d \in Range(moves)
       /\ leds[d] # Dark

\* C20: a call of poll_move that issues the forced disconnect leaves the
\* device's counter one higher, not at zero; a counter goes down only to
\* zero and only in a call that returns true; and every failed poll that
\* takes a counter beyond 1001 issues the disconnect again.
C20_DisconnectAgain ==
  [][\A d \in Devices :
       /\ d \in hci_dc' => poll_failures'[d] = poll_failures[d] + 1
       /\ poll_failures'[d] < poll_failures[d] =>
            (poll_failures'[d] = 0 /\ poll_ret' = TRUE /\ hci_dc' = {})
       /\ (poll_failures'[d] > poll_failures[d] /\ poll_failures'[d] > 1001) =>
            (hci_dc' = {d} /\ poll_ret' = FALSE)]_vars

\* the second failed poll after the 1001st has issued the disconnect again
C20_ThirdDisconnect ==
  \E d \in Devices : poll_failures[d] = 1003 /\ hci_dc = {d} /\ poll_ret = FALSE

====
